---- MODULE Spec2Model ----
(***************************************************************************)
(* Model of mysignal/bessy.py: the multi-rate closed-loop simulator        *)
(* (simulate), the block-Toeplitz builder (toeplitz_block,                 *)
(* control_toeplitz) and the rate-conversion builder (decimate).           *)
(*                                                                         *)
(* Signals are single-channel (S is 1x1, CM_nb = BPM_nb = 1) with integer  *)
(* values.  An LTI filter is given by its discrete quadruple (A, B, C, D)  *)
(* and its order den.size-1; a static gain has order 0.                    *)
(***************************************************************************)
EXTENDS Integers, Sequences, FiniteSets, TLC

\* ------------------------------------------------------------------ bounds
MaxN == 3          \* longest disturbance sequence d_s
MaxFs == 2         \* control rates fs in 1..MaxFs
MaxDelay == 2      \* delay = n / DelayDen seconds, n in 0..MaxDelay
DelayDen == 3
MaxLen == 3        \* longest col / row list given to toeplitz_block
MaxHorizon == 3    \* largest horizon N given to control_toeplitz
MaxNin == 10       \* largest N_in / N_out given to decimate

None == "None"

VARIABLES
  \* --- simulate
  d_s, K, S, H_lp, H_dip, H_ring, delay, fs,   \* arguments
  pc, k, sample,                               \* loop position, fine index, coarse cursor
  y, yd, orbit, u, u_delay, d, e,              \* real-time buffers
  du_s, e_s,                                   \* sample-time buffers
  xring, xcor, xlp, xk,                        \* filter states
  dorbit,                                      \* output of the sensor low-pass of this step
  calls,                                       \* apply_f calls made in the current fine step
  result,                                      \* value returned by simulate
  \* --- toeplitz_block / control_toeplitz / decimate
  fn, args, ret

simVars == <<d_s, K, S, H_lp, H_dip, H_ring, delay, fs, pc, k, sample,
             y, yd, orbit, u, u_delay, d, e, du_s, e_s,
             xring, xcor, xlp, xk, dorbit, calls, result>>
callVars == <<fn, args, ret>>
vars == <<simVars, callVars>>

\* ------------------------------------------------------------ arithmetic
\* math.ceil(n / m) for n >= 0, m > 0
Ceil(n, m) == (n + m - 1) \div m

\* ---------------------------------------------------------------- filters
\* Static gain g: num = [g], den = [1].
Gain(g) == [order |-> 0, A |-> 0, B |-> 0, C |-> 0, D |-> g]
\* First-order filter, already discretised.
FirstOrder(a, b, c, dd) == [order |-> 1, A |-> a, B |-> b, C |-> c, D |-> dd]

\* The filters the runs are drawn from: unity gain and a one-step lag.
FilterSet == {Gain(1), FirstOrder(0, 1, 1, 0)}
\* Ring responses: unity gain.
RingSet == {Gain(1)}
\* Controllers: unity gain and an accumulator.
ControllerSet == {Gain(1), FirstOrder(1, 1, 1, 1)}

\* np.zeros(CM_nb*(H.den.size-1))
ZeroState(H) == [i \in 1..H.order |-> 0]

\* H.apply_f(u, x, Ts): one discrete step  y = C x + D u,  x' = A x + B u.
\* Returns <<output, next state>>.
apply_f(H, in, x) ==
  IF H.order = 0
  THEN <<H.D * in, x>>
  ELSE <<H.C * x[1] + H.D * in, <<H.A * x[1] + H.B * in>>>>

\* sktools.maths.inverse_with_svd(S, 1) for an invertible 1x1 S in {-1, 1}
S_inv(s) == s

\* ---------------------------------------------------------------- simulate
f_ratio == 10
fs_real(f) == f_ratio * f
\* one fine step short of f_ratio per coarse sample
t_real_size_short(ds) == f_ratio * Len(ds) - 1

\* t_real = np.arange(0, f_ratio*d_s.size) / fs_real
t_real_size(ds) == f_ratio * Len(ds)
\* t = np.arange(0, d_s.size) / fs
t_size(ds) == Len(ds)
\* math.floor in place of math.ceil
delay_offset_floor(dl, f) == (dl * fs_real(f)) \div DelayDen

\* delay_offset = math.ceil(delay*fs_real), delay = delay / DelayDen seconds
delay_offset(dl, f) == Ceil(dl * fs_real(f), DelayDen)

\* np.zeros((CM_nb, n)) with CM_nb = 1
Zeros(n) == [i \in 0..(n-1) |-> 0]

\* comparison against the next coarse instant t[s+1]
TimeReachedNext(kk, s, f) == kk * f >= (s + 1) * fs_real(f)

\* t_real[kk] >= t[s], i.e. kk/fs_real >= s/fs
TimeReached(kk, s, f) == kk * f >= s * fs_real(f)

DVals == {0, 1}

SimArgs(ds, kf, s, lp, dip, ring, dl, f) ==
  /\ d_s = ds /\ K = kf /\ S = s /\ H_lp = lp /\ H_dip = dip /\ H_ring = ring
  /\ delay = dl /\ fs = f

\* State of simulate when the loop is entered (lines 53-87).
SimStart ==
  /\ pc = "sense" /\ k = 1 /\ sample = 0
  /\ y = Zeros(t_real_size(d_s)) /\ yd = Zeros(t_real_size(d_s))
  /\ orbit = Zeros(t_real_size(d_s)) /\ u = Zeros(t_real_size(d_s))
  /\ u_delay = Zeros(t_real_size(d_s)) /\ d = Zeros(t_real_size(d_s))
  /\ e = Zeros(t_real_size(d_s))
  /\ du_s = Zeros(t_size(d_s)) /\ e_s = Zeros(t_size(d_s))
  /\ xring = ZeroState(H_ring) /\ xcor = ZeroState(H_dip)
  /\ xlp = ZeroState(H_lp) /\ xk = ZeroState(K)
  /\ dorbit = 0 /\ calls = <<>> /\ result = None

\* no value returned or raised yet
Pending == [status |-> "pending", check |-> None, A |-> <<>>]

NoCall == fn = None /\ args = None /\ ret = Pending

Init ==
  /\ \E n \in 1..MaxN : \E ds \in [1..n -> DVals] :
     \E kf \in ControllerSet, lp \in FilterSet, dip \in FilterSet, ring \in RingSet :
     \E s \in {-1, 1}, dl \in 0..MaxDelay, f \in 1..MaxFs :
       SimArgs(ds, kf, s, lp, dip, ring, dl, f)
  /\ SimStart
  /\ NoCall

\* lines 88-92: loop header, disturbance hold, sensor low-pass
StepSensor ==
  /\ pc = "sense" /\ k < t_real_size(d_s)
  /\ d' = [d EXCEPT ![k] = d_s[sample + 1]]
  /\ LET r == apply_f(H_lp, 0 - orbit[k-1], xlp)
     IN  dorbit' = r[1] /\ xlp' = r[2]
  /\ calls' = <<"H_lp">>
  /\ pc' = "ctrl"
  /\ UNCHANGED <<d_s, K, S, H_lp, H_dip, H_ring, delay, fs, k, sample,
                 y, yd, orbit, u, u_delay, e, du_s, e_s, xring, xcor, xk, result>>
  /\ UNCHANGED callVars

\* line 94: t_real[k] >= t[sample] and sample < t.size-1
AdvanceCond == TimeReached(k, sample, fs) /\ sample < t_size(d_s) - 1

\* lines 94-98, condition true: advance the cursor and step the controller
CursorAdvance ==
  /\ pc = "ctrl" /\ AdvanceCond
  /\ sample' = sample + 1
  /\ e_s' = [e_s EXCEPT ![sample + 1] = S_inv(S) * dorbit]
  /\ LET r == apply_f(K, S_inv(S) * dorbit, xk)
     IN  du_s' = [du_s EXCEPT ![sample + 1] = r[1]] /\ xk' = r[2]
  /\ calls' = Append(calls, "K")
  /\ pc' = "hold"
  /\ UNCHANGED <<d_s, K, S, H_lp, H_dip, H_ring, delay, fs, k,
                 y, yd, orbit, u, u_delay, d, e, xring, xcor, xlp, dorbit, result>>
  /\ UNCHANGED callVars

\* the controller stepped outside the if, on every fine step
CursorHoldStepsK ==
  /\ pc = "ctrl" /\ ~AdvanceCond
  /\ LET r == apply_f(K, e_s[sample], xk)
     IN  du_s' = [du_s EXCEPT ![sample] = r[1]] /\ xk' = r[2]
  /\ calls' = Append(calls, "K")
  /\ pc' = "hold"
  /\ UNCHANGED <<d_s, K, S, H_lp, H_dip, H_ring, delay, fs, k, sample,
                 y, yd, orbit, u, u_delay, d, e, e_s,
                 xring, xcor, xlp, dorbit, result>>
  /\ UNCHANGED callVars

\* line 94, condition false
CursorHold ==
  /\ pc = "ctrl" /\ ~AdvanceCond
  /\ pc' = "hold"
  /\ UNCHANGED <<d_s, K, S, H_lp, H_dip, H_ring, delay, fs, k, sample,
                 y, yd, orbit, u, u_delay, d, e, du_s, e_s,
                 xring, xcor, xlp, xk, dorbit, calls, result>>
  /\ UNCHANGED callVars

\* line 106 index: the command delay_offset fine steps in the past
DelayedIndex(kk, off) == kk - off

\* lines 101-106: zero-order hold of error and command, delay line
HoldAndDelay ==
  /\ pc = "hold"
  /\ e' = [e EXCEPT ![k] = e_s[sample]]
  /\ u' = [u EXCEPT ![k] = du_s[sample]]
  /\ u_delay' = IF k >= delay_offset(delay, fs)
                THEN [u_delay EXCEPT ![k] = u'[DelayedIndex(k, delay_offset(delay, fs))]]
                ELSE u_delay
  /\ pc' = "dip"
  /\ UNCHANGED <<d_s, K, S, H_lp, H_dip, H_ring, delay, fs, k, sample,
                 y, yd, orbit, d, du_s, e_s, xring, xcor, xlp, xk, dorbit, calls, result>>
  /\ UNCHANGED callVars

\* lines 109-110: corrector magnet, disturbed output
StepActuator ==
  /\ pc = "dip"
  /\ LET r == apply_f(H_dip, u_delay[k], xcor)
     IN  /\ y' = [y EXCEPT ![k] = r[1]]
         /\ xcor' = r[2]
         /\ yd' = [yd EXCEPT ![k] = r[1] + d[k]]
  /\ calls' = Append(calls, "H_dip")
  /\ pc' = "ring"
  /\ UNCHANGED <<d_s, K, S, H_lp, H_dip, H_ring, delay, fs, k, sample,
                 orbit, u, u_delay, d, e, du_s, e_s, xring, xlp, xk, dorbit, result>>
  /\ UNCHANGED callVars

\* lines 113-114: ring response, orbit; then the next fine step
StepRing ==
  /\ pc = "ring"
  /\ LET r == apply_f(H_ring, yd[k], xring)
     IN  /\ orbit' = [orbit EXCEPT ![k] = S * r[1]]
         /\ xring' = r[2]
  /\ calls' = Append(calls, "H_ring")
  /\ k' = k + 1
  /\ pc' = "sense"
  /\ UNCHANGED <<d_s, K, S, H_lp, H_dip, H_ring, delay, fs, sample,
                 y, yd, u, u_delay, d, e, du_s, e_s, xcor, xlp, xk, dorbit, result>>
  /\ UNCHANGED callVars

\* line 128: return yd, d, fs_real
Return ==
  /\ pc = "sense" /\ k >= t_real_size(d_s)
  /\ result' = [yd |-> yd, d |-> d, fs_real |-> fs_real(fs)]
  /\ pc' = "done"
  /\ UNCHANGED <<d_s, K, S, H_lp, H_dip, H_ring, delay, fs, k, sample,
                 y, yd, orbit, u, u_delay, d, e, du_s, e_s,
                 xring, xcor, xlp, xk, dorbit, calls>>
  /\ UNCHANGED callVars

Next ==
  \/ StepSensor
  \/ CursorAdvance
  \/ CursorHold
  \/ HoldAndDelay
  \/ StepActuator
  \/ StepRing
  \/ Return

Spec == Init /\ [][Next]_vars

\* ----------------------------------------------------------- matrices
\* A block (2-D array) is a sequence of rows of equal length.
Shape(b) == <<Len(b), Len(b[1])>>

\* elem.conjugate() of a real-valued block
Conjugate(b) == b

Max(a, b) == IF a >= b THEN a ELSE b

\* shapes that numpy can broadcast against each other
Broadcastable(a, b) ==
  \A n \in 1..2 : Shape(a)[n] = Shape(b)[n] \/ Shape(a)[n] = 1 \/ Shape(b)[n] = 1

\* np.all(a == b): elementwise comparison after broadcasting.  Shapes that
\* do not broadcast compare unequal (or make == itself raise ValueError).
np_all_eq(a, b) ==
  /\ Broadcastable(a, b)
  /\ \A i \in 1..Max(Len(a), Len(b)) : \A j \in 1..Max(Len(a[1]), Len(b[1])) :
       a[IF Len(a) = 1 THEN 1 ELSE i][IF Len(a[1]) = 1 THEN 1 ELSE j]
         = b[IF Len(b) = 1 THEN 1 ELSE i][IF Len(b[1]) = 1 THEN 1 ELSE j]

\* [b] * n
Copies(b, n) == [i \in 1..n |-> b]

RECURSIVE RowsUpTo(_, _)
RowsUpTo(bs, n) == IF n = 0 THEN 0 ELSE RowsUpTo(bs, n - 1) + Len(bs[n])

RECURSIVE ColsUpTo(_, _)
ColsUpTo(bs, n) == IF n = 0 THEN 0 ELSE ColsUpTo(bs, n - 1) + Len(bs[n][1])

\* scipy.linalg.block_diag(*bs)
block_diag(bs) ==
  [i \in 1..RowsUpTo(bs, Len(bs)) |->
    [j \in 1..ColsUpTo(bs, Len(bs)) |->
      LET n == CHOOSE m \in 1..Len(bs) : RowsUpTo(bs, m - 1) < i /\ i <= RowsUpTo(bs, m)
      IN  IF ColsUpTo(bs, n - 1) < j /\ j <= ColsUpTo(bs, n)
          THEN bs[n][i - RowsUpTo(bs, n - 1)][j - ColsUpTo(bs, n - 1)]
          ELSE 0]]

\* A[kk*shape[0]:, :-kk*shape[1]] += M
AddLowerSlice(A, kk, shape, M) ==
  [i \in 1..Len(A) |->
    [j \in 1..Len(A[1]) |->
      IF i > kk * shape[1] /\ j <= Len(A[1]) - kk * shape[2]
      THEN A[i][j] + M[i - kk * shape[1]][j]
      ELSE A[i][j]]]

\* np.zeros(shape) for a 2-D shape
ZeroMatrix(r, c) == [i \in 1..r |-> [j \in 1..c |-> 0]]

\* X.dot(Y)
RECURSIVE DotSum(_, _, _, _, _)
DotSum(X, Y, i, j, n) ==
  IF n = 0 THEN 0 ELSE DotSum(X, Y, i, j, n - 1) + X[i][n] * Y[n][j]

Dot(X, Y) == [i \in 1..Len(X) |-> [j \in 1..Len(Y[1]) |-> DotSum(X, Y, i, j, Len(Y))]]

Raise(exc, chk) == [status |-> exc, check |-> chk, A |-> <<>>]
Returns(M) == [status |-> "ok", check |-> None, A |-> M]

\* ------------------------------------------------------- toeplitz_block
\* a default row of the same length as col
DefaultRowSameLength(col) == [i \in 1..Len(col) |-> Conjugate(col[i])]

\* lines 133-135: row = [col[0]], then one conjugated block per element of col
DefaultRow(col) == <<col[1]>> \o [i \in 1..Len(col) |-> Conjugate(col[i])]

\* lines 140-146: col[k] and row[k] against the shape of col[k-1], k >= 1
ColShapesOk(col, row) ==
  \A n \in 2..Len(col) :
    Shape(col[n]) = Shape(col[n - 1]) /\ Shape(row[n]) = Shape(col[n - 1])

\* the loop over row left out
RowShapesUnchecked(col, row) == TRUE

\* lines 148-151: every block of row against the running shape, starting
\* from the shape of the last block of col
RowShapesOk(col, row) ==
  \A n \in 1..Len(row) :
    Shape(row[n]) = (IF n = 1 THEN Shape(col[Len(col)]) ELSE Shape(row[n - 1]))

\* the block of row in place of the block of col
OffDiagonalBlockFromRow(col, row, kk) == row[kk + 1]

\* line 158: the block repeated on the kk-th lower block diagonal
OffDiagonalBlock(col, row, kk) == col[kk + 1]

\* lines 156-159: for k in range(1, len(row))
RECURSIVE BuildLoop(_, _, _, _)
BuildLoop(A, col, row, kk) ==
  IF kk >= Len(row) THEN A
  ELSE BuildLoop(
         AddLowerSlice(A, kk, Shape(col[Len(col)]),
                       block_diag(Copies(OffDiagonalBlock(col, row, kk), Len(col) - kk))),
         col, row, kk + 1)

\* toeplitz_block(col, row); rowNone is TRUE when row is omitted
toeplitz_block(col, rowArg, rowNone) ==
  LET row == IF rowNone THEN DefaultRow(col) ELSE rowArg
  IN  IF Len(col) # Len(row) THEN Raise("ValueError", "length")
      ELSE IF ~np_all_eq(col[1], row[1]) THEN Raise("ValueError", "first")
      ELSE IF ~ColShapesOk(col, row) THEN Raise("ValueError", "shape")
      ELSE IF ~RowShapesOk(col, row) THEN Raise("ValueError", "shape")
      ELSE Returns(BuildLoop(block_diag(Copies(col[1], Len(col))), col, row, 1))

\* ----------------------------------------------------- control_toeplitz
\* lines 174-176: col = [D, C, C A, C A A, ...]
RECURSIVE MarkovPrefix(_, _)
MarkovPrefix(H, n) ==
  IF n <= 2 THEN <<H.D, H.C>>
  ELSE LET c == MarkovPrefix(H, n - 1) IN Append(c, Dot(c[n - 1], H.A))

\* lines 177-178: col[k] = col[k].dot(B) for k in range(1, N)
MarkovCol(H, n) ==
  LET c == MarkovPrefix(H, n)
  IN  [i \in 1..Len(c) |-> IF i >= 2 /\ i <= n THEN Dot(c[i], H.B) ELSE c[i]]

\* line 179: row = [D] + [np.zeros(D.shape)] * (N-1)
CausalRow(H, n) ==
  <<H.D>> \o Copies(ZeroMatrix(Len(H.D), Len(H.D[1])), n - 1)

\* np.eye(N)*H.num[0]/H.den[0]
ScaledEye(n, num, den) ==
  [i \in 1..n |-> [j \in 1..n |-> IF i = j THEN num \div den ELSE 0]]

control_toeplitz(H, n) ==
  IF H.num_size = 1 /\ H.den_size = 1
  THEN Returns(ScaledEye(n, H.num, H.den))
  ELSE toeplitz_block(MarkovCol(H, n), CausalRow(H, n), FALSE)

\* ------------------------------------------------------------- decimate
\* np.zeros(shape, dtype) called with an integer as dtype: an integer is
\* not a data type, numpy raises TypeError
np_zeros(shape, dtype) ==
  IF dtype \in Int THEN Raise("TypeError", "dtype")
  ELSE Returns(ZeroMatrix(shape, 1))

\* lines 186-187: M[k, (N_in//N_out)*k] = 1 for k in range(N_out)
SelectRows(M, N_in, N_out) ==
  [i \in 1..Len(M) |-> [j \in 1..Len(M[1]) |->
     IF i <= N_out /\ j = (N_in \div N_out) * (i - 1) + 1 THEN 1 ELSE M[i][j]]]

decimate(N_in, N_out) ==
  LET M == np_zeros(N_out, N_in)
  IN  IF M.status # "ok" THEN M ELSE Returns(SelectRows(M.A, N_in, N_out))

\* ------------------------------------------- calls of the pure functions
SimIdle ==
  /\ d_s = None /\ K = None /\ S = None /\ H_lp = None /\ H_dip = None
  /\ H_ring = None /\ delay = None /\ fs = None
  /\ pc = "idle" /\ k = None /\ sample = None
  /\ y = None /\ yd = None /\ orbit = None /\ u = None /\ u_delay = None
  /\ d = None /\ e = None /\ du_s = None /\ e_s = None
  /\ xring = None /\ xcor = None /\ xlp = None /\ xk = None
  /\ dorbit = None /\ calls = None /\ result = None

\* the blocks col and row are drawn from
BlockSet == { <<<<1>>>>, <<<<2>>>>, <<<<1, 1>>>>, <<<<1>>, <<2>>>>, <<<<2>>, <<1>>>> }

BlockLists(lo, hi) == UNION {[1..n -> BlockSet] : n \in lo..hi}

InitToeplitz ==
  /\ SimIdle
  /\ fn = "toeplitz_block"
  /\ \E col \in BlockLists(1, MaxLen) :
       \/ \E row \in BlockLists(0, MaxLen) :
            args = [col |-> col, row |-> row, rowNone |-> FALSE]
       \/ args = [col |-> col, row |-> <<>>, rowNone |-> TRUE]
  /\ ret = Pending

ToeplitzCall ==
  /\ fn = "toeplitz_block" /\ ret = Pending
  /\ ret' = toeplitz_block(args.col, args.row, args.rowNone)
  /\ UNCHANGED <<fn, args>>
  /\ UNCHANGED simVars

SpecToeplitz == InitToeplitz /\ [][ToeplitzCall]_vars

\* filters given to control_toeplitz: static gains and discrete quadruples
Dynamic(a, b, c, dd) ==
  [num_size |-> 2, den_size |-> 2, num |-> 0, den |-> 1, A |-> a, B |-> b, C |-> c, D |-> dd]
StaticGain(g) ==
  [num_size |-> 1, den_size |-> 1, num |-> g, den |-> 1,
   A |-> <<>>, B |-> <<>>, C |-> <<>>, D |-> <<>>]

QuadSet ==
  {Dynamic(<<<<a>>>>, <<<<b>>>>, <<<<c>>>>, <<<<dd>>>>) :
      a \in 0..2, b \in 1..2, c \in 1..2, dd \in 0..1}
  \cup {Dynamic(<<<<0, 1>>, <<1, 1>>>>, <<<<0>>, <<1>>>>, <<<<1, 0>>>>, <<<<dd>>>>) : dd \in 0..1}
  \cup {StaticGain(g) : g \in 1..2}

InitControl ==
  /\ SimIdle
  /\ fn = "control_toeplitz"
  /\ \E H \in QuadSet, n \in 1..MaxHorizon : args = [H |-> H, N |-> n]
  /\ ret = Pending

ControlCall ==
  /\ fn = "control_toeplitz" /\ ret = Pending
  /\ ret' = control_toeplitz(args.H, args.N)
  /\ UNCHANGED <<fn, args>>
  /\ UNCHANGED simVars

SpecControl == InitControl /\ [][ControlCall]_vars

InitDecimate ==
  /\ SimIdle
  /\ fn = "decimate"
  /\ \E nin \in 1..MaxNin, nout \in 1..MaxNin : args = [N_in |-> nin, N_out |-> nout]
  /\ ret = Pending

DecimateCall ==
  /\ fn = "decimate" /\ ret = Pending
  /\ ret' = decimate(args.N_in, args.N_out)
  /\ UNCHANGED <<fn, args>>
  /\ UNCHANGED simVars

SpecDecimate == InitDecimate /\ [][DecimateCall]_vars

\* ------------------------------------------------- the impulse scenario
\* d_s = unit impulse at coarse sample 1 of 8, fs = 1, delay = 0,
\* K = H_lp = H_dip = H_ring = unity gain, S = 1x1 identity.
ScenarioD == <<0, 1, 0, 0, 0, 0, 0, 0>>

InitScenario ==
  /\ SimArgs(ScenarioD, Gain(1), 1, Gain(1), Gain(1), Gain(1), 0, 1)
  /\ SimStart
  /\ NoCall

SpecScenario == InitScenario /\ [][Next]_vars

\* --------------------------------------------------------------- claims
Finished == pc = "done"
FineSteps == 0..(10 * Len(d_s) - 1)
\* d_off = ceil(delay * 10 * fs)
d_off == Ceil(delay * 10 * fs, DelayDen)

\* C1: after the run, u_delay[k] = u[k - d_off] for every fine index
\* k >= d_off and u_delay[k] = 0 for every k < d_off.
C1_DelayLine ==
  Finished => \A kk \in FineSteps :
                u_delay[kk] = IF kk >= d_off THEN u[kk - d_off] ELSE 0

\* a finished run with a positive offset inside the horizon and a non-zero
\* delayed command
C1_Witness ==
  /\ Finished /\ d_off > 0 /\ d_off < 10 * Len(d_s)
  /\ \E kk \in FineSteps : kk >= d_off /\ u_delay[kk] # 0

C5_BufferLengths ==
  /\ \A b \in {d, u, u_delay, y, yd, orbit, e} : DOMAIN b = 0..(10 * Len(d_s) - 1)
  /\ \A b \in {e_s, du_s} : DOMAIN b = 0..(Len(d_s) - 1)
  /\ Finished => /\ DOMAIN result.yd = 0..(10 * Len(d_s) - 1)
                 /\ DOMAIN result.d = 0..(10 * Len(d_s) - 1)
                 /\ result.fs_real = 10 * fs

C5_Witness == Finished /\ Len(d_s) >= 2 /\ result.yd = yd /\ fs > 1

\* C7 as stated: the cursor advances from s to s+1 at fine step k only if
\* k/(10*fs) >= (s+1)/fs.
C7_Claimed ==
  [][sample' = sample + 1 => k * fs >= (sample + 1) * 10 * fs]_vars

FullStep(c) == c \in {<<"H_lp", "H_dip", "H_ring">>, <<"H_lp", "K", "H_dip", "H_ring">>}
SteppedK(c1, c2) == c2 = Append(c1, "K")

\* C8: each fine step 1..10N-1 steps H_lp, H_dip, H_ring exactly once, in
\* that order; K is stepped iff the cursor advances; the cursor advances by
\* at most 1 per fine step, never decreases and stays within 0..N-1.
C8_Stepping ==
  /\ [](sample \in 0..(Len(d_s) - 1))
  /\ []((pc = "sense" /\ k > 1) => FullStep(calls))
  /\ [](Finished => k = 10 * Len(d_s))
  /\ [][/\ sample' \in {sample, sample + 1}
        /\ (sample' # sample) <=> SteppedK(calls, calls')
        /\ k' \in {k, k + 1}
        /\ k' = k + 1 => FullStep(calls')]_vars

C8_Witness == Finished /\ sample = Len(d_s) - 1 /\ sample >= 2

CallReturned(f) == fn = f /\ ret # Pending

MatAdd(X, Y) == [i \in 1..Len(X) |-> [j \in 1..Len(X[1]) |-> X[i][j] + Y[i][j]]]

\* outputs of Len(uin) sequential steps y = C x + D u, x' = A x + B u
\* from state x, for a single-input single-output quadruple
RECURSIVE SequentialOutputs(_, _, _)
SequentialOutputs(H, uin, x) ==
  IF uin = <<>> THEN <<>>
  ELSE LET uu == <<<<Head(uin)>>>>
       IN  <<MatAdd(Dot(H.C, x), Dot(H.D, uu))[1][1]>>
             \o SequentialOutputs(H, Tail(uin), MatAdd(Dot(H.A, x), Dot(H.B, uu)))

\* T applied to the stacked input
MatVec(T, uin) == [i \in 1..Len(T) |-> DotSum(T, [n \in 1..Len(uin) |-> <<uin[n]>>], i, 1, Len(uin))]

\* C2 as stated: for every filter with dynamics and every horizon N >= 1,
\* control_toeplitz returns an N x N matrix (p = m = 1) that maps every
\* stacked input to the outputs of N sequential state-space steps from
\* zero state.
C2_Claimed ==
  (CallReturned("control_toeplitz") /\ args.H.num_size # 1) =>
     /\ ret.status = "ok"
     /\ Len(ret.A) = args.N /\ Len(ret.A[1]) = args.N
     /\ \A uin \in [1..args.N -> 0..2] :
          MatVec(ret.A, uin)
            = SequentialOutputs(args.H, uin, ZeroMatrix(Len(args.H.A), 1))

SameShapes(col, row) ==
  \A a \in 1..Len(col) :
    /\ \A b \in 1..Len(col) : Shape(col[a]) = Shape(col[b])
    /\ \A b \in 1..Len(row) : Shape(col[a]) = Shape(row[b])

\* the three conditions of a rejected call
Rejected(col, row) ==
  \/ Len(col) # Len(row)
  \/ ~SameShapes(col, row)
  \/ col[1] # row[1]

\* C4: with an explicit row, toeplitz_block raises ValueError and returns
\* no matrix when col and row differ in length, or two blocks differ in
\* shape, or col[0] # row[0]; otherwise it returns a matrix without error.
C4_Validation ==
  (CallReturned("toeplitz_block") /\ ~args.rowNone) =>
     IF Rejected(args.col, args.row)
     THEN ret.status = "ValueError" /\ ret.A = <<>>
     ELSE ret.status = "ok" /\ ret.A # <<>>

\* a call rejected only for a shape difference: equal lengths, first
\* blocks that compare equal after broadcasting
C4_Witness ==
  /\ CallReturned("toeplitz_block") /\ ~args.rowNone
  /\ Len(args.col) = Len(args.row)
  /\ np_all_eq(args.col[1], args.row[1])
  /\ Shape(args.col[1]) # Shape(args.row[1])
  /\ ret.status = "ValueError"

\* C6 as stated: for N_out dividing N_in, decimate returns an
\* N_out x N_in matrix whose row k has a single 1, at column
\* k*(N_in // N_out).
C6_Claimed ==
  (CallReturned("decimate") /\ args.N_in % args.N_out = 0) =>
     /\ ret.status = "ok"
     /\ ret.A = [i \in 1..args.N_out |-> [j \in 1..args.N_in |->
                   IF j - 1 = (i - 1) * (args.N_in \div args.N_out) THEN 1 ELSE 0]]

\* block (i, j) = col[i-j] for i >= j and the zero block for i < j
LowerBlockToeplitz(col) ==
  LET r == Len(col[1])
      c == Len(col[1][1])
  IN  [i \in 1..(r * Len(col)) |-> [j \in 1..(c * Len(col)) |->
        LET bi == (i - 1) \div r
            bj == (j - 1) \div c
        IN  IF bi >= bj THEN col[bi - bj + 1][((i - 1) % r) + 1][((j - 1) % c) + 1]
            ELSE 0]]

\* C9: for valid (col, row) the result has block (i, j) = col[i-j] for
\* i >= j and zero for i < j, does not depend on row[1..N-1], and for
\* N = 1 is col[0].
C9_LowerTriangular ==
  (CallReturned("toeplitz_block") /\ ~args.rowNone /\ ~Rejected(args.col, args.row)) =>
     /\ ret.status = "ok"
     /\ ret.A = LowerBlockToeplitz(args.col)
     /\ \A row2 \in [1..Len(args.col) -> BlockSet] :
          (~Rejected(args.col, row2)) =>
             toeplitz_block(args.col, row2, FALSE).A = ret.A
     /\ Len(args.col) = 1 => ret.A = args.col[1]

\* a valid call with three 2x1 blocks, distinct off-diagonal blocks, and a
\* row that differs from col beyond the first block
C9_Witness ==
  /\ CallReturned("toeplitz_block") /\ ~args.rowNone
  /\ ~Rejected(args.col, args.row)
  /\ Len(args.col) = 3 /\ Shape(args.col[1]) = <<2, 1>>
  /\ args.col[2] # args.col[3] /\ args.row[2] # args.col[2]
  /\ ret.status = "ok"

\* C10: with row omitted toeplitz_block never returns a matrix: the call
\* raises the 'same length' ValueError.
C10_DefaultRowRaises ==
  (CallReturned("toeplitz_block") /\ args.rowNone) =>
     ret.status = "ValueError" /\ ret.check = "length" /\ ret.A = <<>>

C10_Witness ==
  /\ CallReturned("toeplitz_block") /\ args.rowNone
  /\ Len(args.col) >= 2 /\ ret.status = "ValueError"
====
